---- MODULE Spec2Model ----
(***************************************************************************)
(* Model of the sampling path of src/app.py (Infinity Task Manager):       *)
(* SystemMonitor (histories, previous cumulative counters), the            *)
(* Performance tab's update_data, and TaskManagerWindow's update timer,    *)
(* manual refresh, update-speed menu and close handler.                    *)
(*                                                                         *)
(* Units.  Time is in milliseconds and passes in steps of ClockStep, so    *)
(* two handlers that run between two steps are 0 ms apart on that clock.   *)
(* Counters are in bytes.  A disk or network history entry is              *)
(* min(100, bytes / (1024*1024) * 10) in the code, a float; the model      *)
(* stores that value multiplied by MiB, the exact integer                  *)
(* Min(100 * MiB, bytes * 10).  CPU and memory history entries are         *)
(* percentages.  The texts of the status bar and of the CPU and memory     *)
(* labels, and the process tables, are not modelled.                       *)
(*                                                                         *)
(* Spec runs the whole window with steady OS counters and reads that may   *)
(* raise; SamplingSpec runs the sampling path with moving counters.        *)
(* WindowSpec runs one history deque for any capacity, FlightSpec runs     *)
(* _update_all step by step, ConfigSpec constructs the monitor from any    *)
(* AppConfig, and AlertSpec runs the Threshold Monitor of the design       *)
(* document, of which src/app.py has no code.                              *)
(***************************************************************************)
EXTENDS Integers, Sequences, FiniteSets, TLC

\* ------------------------------------------------------------ constants

MiB == 1048576

DisplayScale == 10

DisplayCap == 100

DefaultRefreshMs == 1000

ClockStep == 500

\* AppConfig.graph_history_points is 60 in the code; the model runs it small.
graph_history_points == 2

\* GraphWidget's deque([0] * 60, maxlen=60): the same 60.
GraphMaxlen == graph_history_points

\* The time since the stored network reading is tracked up to MaxElapsed
\* (MaxElapsedSteps clock steps); MaxElapsed itself stands for "that or more".
MaxElapsedSteps == 5

MaxElapsed == MaxElapsedSteps * ClockStep

\* The entries of the 'Update speed' menu: High, Normal, Low, Paused.
SpeedMenu == {500, 1000, 2000, 0}

Tabs == {"processes", "performance", "details"}

Metrics == {"cpu", "memory", "disk", "network"}

\* ------------------------------------------------------------- readings

\* psutil.net_io_counters(): a reading, or no reading (the call raised, or
\* returned None); ok = FALSE stands for both.
NetNone == [ok |-> FALSE, bytes_sent |-> 0, bytes_recv |-> 0]

NetCounters ==
    { [ok |-> TRUE, bytes_sent |-> 0, bytes_recv |-> 1000],
      [ok |-> TRUE, bytes_sent |-> 0, bytes_recv |-> 3000],
      [ok |-> TRUE, bytes_sent |-> 12 * MiB, bytes_recv |-> 3000] }

NetReadings == NetCounters \cup {NetNone}

\* psutil.disk_usage() together with psutil.disk_io_counters(); ok = FALSE
\* when either raised or disk_io_counters() returned None.
DiskNone == [ok |-> FALSE, percent |-> 0, read_bytes |-> 0, write_bytes |-> 0]

DiskCounters ==
    { [ok |-> TRUE, percent |-> 50, read_bytes |-> 4096, write_bytes |-> 0],
      [ok |-> TRUE, percent |-> 50, read_bytes |-> 8192, write_bytes |-> 4096] }

DiskReadings == DiskCounters \cup {DiskNone}

CpuReadings == {40}

MemReadings == {60}

\* Where a handler run is cut short by a read that raises outside the try
\* of get_disk_info / get_network_info.  "cpu_hist", "mem_hist": the reads
\* of update_history; "label": a read behind the CPU or memory info label;
\* "status": a read behind the status bar.
PerfAborts == {"cpu_hist", "mem_hist", "label"}

StatusAborts == {"status"}

Min(a, b) == IF a < b THEN a ELSE b

VARIABLES
    app_state,          \* "running" | "closed" | "fatal" (construction raised, or a slot's exception escaped)
    config_refresh_ms,  \* AppConfig.refresh_ms
    current_tab,        \* tabs.currentWidget()
    speed_checked,      \* the checked action of the 'Update speed' group
    update_timer,       \* QTimer: [active, interval, remaining (ms until its timeout)]
    cpu_history, memory_history, disk_history, network_history,
    net_io_prev, disk_io_prev,
    cpu_graph, mem_graph, disk_graph, net_graph,   \* GraphWidget.data
    disk_info, net_info,                           \* what the info labels show
    last,               \* history variable: what the most recent step did
    since_prev,         \* history variable: ms since net_io_prev was stored
    net_prev_timer      \* history variable: net_io_prev as the timer-driven ticks alone leave it

monitor_vars == <<cpu_history, memory_history, disk_history, network_history,
                  net_io_prev, disk_io_prev>>

widget_vars == <<cpu_graph, mem_graph, disk_graph, net_graph, disk_info, net_info>>

\* The parts of the program on their own, each run by its own specification;
\* the whole-window specifications leave them as they start.
VARIABLES
    config_graph_history_points,  \* AppConfig.graph_history_points as handed to SystemMonitor
    window_capacity,    \* one deque(maxlen=capacity) of SystemMonitor: its maxlen,
    window_buffer,      \*   its contents,
    window_pushed,      \*   history variable: every value appended to it, in order
    alert_cooldown,     \* Threshold Monitor: the configured cooldown_duration
    alert_last_fired_at,\*   AlertState.last_fired_at
    alert_now,          \*   the clock handed to evaluate
    alert_fired,        \*   history variable: the instants at which a batch was returned
    alert_last,         \*   history variable: the most recent evaluate call
    in_flight,          \* per execution context: where its run of _update_all stands
    prev_writer,        \* history variable: the context whose unfinished run stored net_io_prev (0: none)
    prev_seen           \* history variable: the most recent read of net_io_prev: by whom, written by whom

window_vars == <<window_capacity, window_buffer, window_pushed>>

alert_vars == <<alert_cooldown, alert_last_fired_at, alert_now, alert_fired, alert_last>>

flight_vars == <<in_flight, prev_writer, prev_seen>>

component_vars == <<config_graph_history_points, window_vars, alert_vars, flight_vars>>

vars == <<app_state, config_refresh_ms, current_tab, speed_checked, update_timer,
          monitor_vars, widget_vars, last, since_prev, net_prev_timer, component_vars>>

\* ------------------------------------------------------- SystemMonitor

\* deque([0] * n, maxlen=n)
Zeros(n) == [i \in 1..n |-> 0]

\* A plain list in place of the bounded deque: nothing is ever dropped.
DequeAppend_Unbounded(d, x, maxlen) == Append(d, x)

\* A full buffer that refuses the new value and keeps its oldest one.
DequeAppend_DropNewest(d, x, maxlen) ==
    IF Len(d) >= maxlen THEN d ELSE Append(d, x)

\* deque.append on a deque built with maxlen: a full deque drops its
\* leftmost (oldest) element; maxlen = 0 keeps nothing.
DequeAppend(d, x, maxlen) ==
    IF maxlen = 0 THEN d
    ELSE IF Len(d) >= maxlen THEN Append(Tail(d), x)
    ELSE Append(d, x)

\* min(100, active * 10) with active = bytes / (1024 * 1024), times MiB.
ScaleForDisplay(bytes) == Min(DisplayCap * MiB, bytes * DisplayScale)

NetDefault == [sent_speed |-> 0, recv_speed |-> 0, total_sent |-> 0, total_recv |-> 0]

\* A get_network_info whose except branch forgets the stored counters.
GetNetworkInfo_ForgetOnFail(prev, rd) ==
    IF rd.ok /\ prev.ok
    THEN [info |-> [sent_speed |-> rd.bytes_sent - prev.bytes_sent,
                    recv_speed |-> rd.bytes_recv - prev.bytes_recv,
                    total_sent |-> rd.bytes_sent,
                    total_recv |-> rd.bytes_recv],
          prev |-> rd]
    ELSE [info |-> NetDefault, prev |-> rd]

\* SystemMonitor.get_network_info with stored counters prev and the reading
\* rd.  The subtraction reads prev before prev is replaced: with no reading,
\* or with prev = None, the except branch returns the defaults and prev stays.
GetNetworkInfo(prev, rd) ==
    IF rd.ok /\ prev.ok
    THEN [info |-> [sent_speed |-> rd.bytes_sent - prev.bytes_sent,
                    recv_speed |-> rd.bytes_recv - prev.bytes_recv,
                    total_sent |-> rd.bytes_sent,
                    total_recv |-> rd.bytes_recv],
          prev |-> rd]
    ELSE [info |-> NetDefault, prev |-> prev]

DiskDefault == [percent |-> 0, read_speed |-> 0, write_speed |-> 0]

\* SystemMonitor.get_disk_info, likewise.
GetDiskInfo(prev, rd) ==
    IF rd.ok /\ prev.ok
    THEN [info |-> [percent |-> rd.percent,
                    read_speed |-> rd.read_bytes - prev.read_bytes,
                    write_speed |-> rd.write_bytes - prev.write_bytes],
          prev |-> rd]
    ELSE [info |-> DiskDefault, prev |-> prev]

\* SystemMonitor.update_history.  get_cpu_percent and get_memory_info have
\* no try of their own: when one raises (ab), the rest of the method does
\* not run and the exception leaves update_history.
UpdateHistory(ab, c, m, d1, n1) ==
    LET cpu_ok == ab # "cpu_hist"
        mem_ok == cpu_ok /\ ab # "mem_hist"
        disk == GetDiskInfo(disk_io_prev, d1)
        net == GetNetworkInfo(net_io_prev, n1)
    IN  [cpu_history |-> IF cpu_ok
                         THEN DequeAppend(cpu_history, c, config_graph_history_points)
                         ELSE cpu_history,
         memory_history |-> IF mem_ok
                            THEN DequeAppend(memory_history, m, config_graph_history_points)
                            ELSE memory_history,
         disk_history |-> IF mem_ok
                          THEN DequeAppend(disk_history,
                                   ScaleForDisplay(disk.info.read_speed + disk.info.write_speed),
                                   config_graph_history_points)
                          ELSE disk_history,
         network_history |-> IF mem_ok
                             THEN DequeAppend(network_history,
                                      ScaleForDisplay(net.info.sent_speed + net.info.recv_speed),
                                      config_graph_history_points)
                             ELSE network_history,
         disk_io_prev |-> IF mem_ok THEN disk.prev ELSE disk_io_prev,
         net_io_prev |-> IF mem_ok THEN net.prev ELSE net_io_prev,
         net_info |-> net.info,
         disk_info |-> disk.info,
         raised |-> ~mem_ok,
         net_stored |-> mem_ok /\ n1.ok /\ net_io_prev.ok,
         appended |-> (IF cpu_ok THEN {"cpu"} ELSE {})
                      \cup (IF mem_ok THEN {"memory", "disk", "network"} ELSE {}),
         failed |-> (IF ~cpu_ok THEN {"cpu"} ELSE {})
                    \cup (IF cpu_ok /\ ~mem_ok THEN {"memory"} ELSE {})
                    \cup (IF mem_ok /\ ~(d1.ok /\ disk_io_prev.ok) THEN {"disk"} ELSE {})
                    \cup (IF mem_ok /\ ~(n1.ok /\ net_io_prev.ok) THEN {"network"} ELSE {})]

\* ------------------------------------------------------- PerformanceTab

\* GraphWidget.update_data
GraphUpdateData(data, value) == DequeAppend(data, value, GraphMaxlen)

\* `if self.monitor.x_history: graph.update_data(x_history[-1])`
PushLatest(data, history) ==
    IF Len(history) > 0 THEN GraphUpdateData(data, history[Len(history)]) ELSE data

LabelUnset == [shown |-> FALSE]

\* PerformanceTab.update_data after its call of update_history returned h
\* (or raised): the four graphs, then the four info labels, which read CPU,
\* memory, disk and network again; any exception ends the method in its
\* except clause.
PerfUpdateData(h, ab, d2, n2) ==
    LET graphs == ~h.raised
        mem_label == graphs /\ ab # "label"
        disk2 == GetDiskInfo(h.disk_io_prev, d2)
        net2 == GetNetworkInfo(h.net_io_prev, n2)
    IN  [cpu_graph |-> IF graphs THEN PushLatest(cpu_graph, h.cpu_history) ELSE cpu_graph,
         mem_graph |-> IF graphs THEN PushLatest(mem_graph, h.memory_history) ELSE mem_graph,
         disk_graph |-> IF graphs THEN PushLatest(disk_graph, h.disk_history) ELSE disk_graph,
         net_graph |-> IF graphs THEN PushLatest(net_graph, h.network_history) ELSE net_graph,
         disk_io_prev |-> IF mem_label THEN disk2.prev ELSE h.disk_io_prev,
         net_io_prev |-> IF mem_label THEN net2.prev ELSE h.net_io_prev,
         disk_info |-> IF mem_label THEN [shown |-> TRUE, info |-> disk2.info] ELSE disk_info,
         net_info |-> IF mem_label THEN [shown |-> TRUE, info |-> net2.info] ELSE net_info,
         raised |-> ab \in PerfAborts,
         graphed |-> IF graphs THEN Metrics ELSE {},
         net_reads |-> (IF h.raised THEN 0 ELSE 1) + (IF mem_label THEN 1 ELSE 0),
         disk_reads |-> (IF h.raised THEN 0 ELSE 1) + (IF mem_label THEN 1 ELSE 0),
         net_stored |-> \/ h.net_stored
                        \/ mem_label /\ n2.ok /\ h.net_io_prev.ok]

\* ---------------------------------------------------- TaskManagerWindow

\* QTimer.start(): (re)arms the timer one interval from now.
TimerStart(t) == [t EXCEPT !.active = TRUE, !.remaining = t.interval]

\* A handler that does not stop the timer.
TimerStop_Missing(t) == t

\* QTimer.stop()
TimerStop(t) == [t EXCEPT !.active = FALSE]

\* A setInterval that is lost: the timer keeps the interval it had.
TimerSetInterval_Ignored(t, ms) == t

\* QTimer.setInterval(ms): a running timer is restarted with the new interval.
TimerSetInterval(t, ms) ==
    IF t.active THEN [t EXCEPT !.interval = ms, !.remaining = ms]
    ELSE [t EXCEPT !.interval = ms]

TimerDue == update_timer.active /\ update_timer.remaining = 0

\* _update_all without its try: the exception leaves the slot.
Escapes_NoTry(sb) == TRUE

\* Whether an exception raised at status-bar read sb leaves _update_all:
\* its body is one try whose except clause logs and returns.
Escapes(sb) == FALSE

NoSample == [taken |-> FALSE, prev |-> NetNone, curr |-> NetNone, elapsed |-> 0,
             info |-> NetDefault, expected |-> NetDefault]

NoDiskSample == [taken |-> FALSE, prev |-> DiskNone, curr |-> DiskNone, info |-> DiskDefault]

LastOf(handler) ==
    [handler |-> handler, error |-> FALSE, failed |-> {}, appended |-> {},
     graphed |-> {}, net_reads |-> 0, disk_reads |-> 0, net |-> NoSample,
     disk |-> NoDiskSample]

\* An _update_all that keeps the Performance tab's data current whichever
\* tab is shown.
SamplesOn_AnyTab(tab) == TRUE

\* Whether _update_all's update of the current tab reaches the monitor: only
\* performance_tab.update_data calls update_history and the counter reads;
\* the Processes and Details tabs' update_data fill their process tables.
SamplesOn(tab) == tab = "performance"

\* What a handler run meets: which reads may raise (aborts: of PerfAborts
\* and StatusAborts) and what the OS counters may read (disk, net).
Env(aborts, disk, net) == [aborts |-> aborts, disk |-> disk, net |-> net]

\* _update_all, run by the timer's timeout or by 'Refresh now'.  The reads of
\* one run see one state of the OS counters (d, n): the run is short against
\* the counters' growth.  sb: the status-bar read that raises, if any.
UpdateAll(handler, env) ==
    \E sb \in {"none"} \cup (StatusAborts \cap env.aborts) :
    /\ app_state' = IF sb # "none" /\ Escapes(sb) THEN "fatal" ELSE app_state
    /\ \/ /\ SamplesOn(current_tab)
          /\ \E ab \in {"none"} \cup (PerfAborts \cap env.aborts),
                c \in CpuReadings, m \in MemReadings,
                d \in env.disk, n \in env.net :
             \E h \in {UpdateHistory(ab, c, m, d, n)} :
             \E p \in {PerfUpdateData(h, ab, d, n)} :
             \E t1 \in {GetNetworkInfo(net_prev_timer, n)} :
             \E t2 \in {GetNetworkInfo(t1.prev, n)} :
                /\ cpu_history' = h.cpu_history
                /\ memory_history' = h.memory_history
                /\ disk_history' = h.disk_history
                /\ network_history' = h.network_history
                /\ disk_io_prev' = p.disk_io_prev
                /\ net_io_prev' = p.net_io_prev
                /\ cpu_graph' = p.cpu_graph
                /\ mem_graph' = p.mem_graph
                /\ disk_graph' = p.disk_graph
                /\ net_graph' = p.net_graph
                /\ disk_info' = p.disk_info
                /\ net_info' = p.net_info
                /\ since_prev' = IF p.net_stored THEN 0 ELSE since_prev
                /\ net_prev_timer' = IF handler # "timer" THEN net_prev_timer
                                     ELSE IF p.net_reads = 2 THEN t2.prev
                                     ELSE IF p.net_reads = 1 THEN t1.prev
                                     ELSE net_prev_timer
                /\ last' = [handler |-> handler,
                            error |-> p.raised \/ sb # "none",
                            failed |-> h.failed,
                            appended |-> h.appended,
                            graphed |-> p.graphed,
                            net_reads |-> p.net_reads,
                            disk_reads |-> p.disk_reads,
                            net |-> IF h.raised THEN NoSample
                                    ELSE [taken |-> TRUE, prev |-> net_io_prev, curr |-> n,
                                          elapsed |-> since_prev,
                                          info |-> h.net_info,
                                          expected |-> t1.info],
                            disk |-> IF h.raised THEN NoDiskSample
                                     ELSE [taken |-> TRUE, prev |-> disk_io_prev, curr |-> d,
                                           info |-> h.disk_info]]
       \/ /\ ~SamplesOn(current_tab)
          /\ last' = [LastOf(handler) EXCEPT !.error = sb # "none"]
          /\ UNCHANGED <<monitor_vars, widget_vars, since_prev, net_prev_timer>>

\* The QTimer's timeout signal, connected to _update_all.
TimerTick(env) ==
    /\ app_state = "running"
    /\ TimerDue
    /\ UpdateAll("timer", env)
    /\ update_timer' = [update_timer EXCEPT !.remaining = update_timer.interval]
    /\ UNCHANGED <<config_refresh_ms, current_tab, speed_checked, component_vars>>

\* _refresh_now: View > Refresh now (F5).
RefreshNow(env) ==
    /\ app_state = "running"
    /\ UpdateAll("manual", env)
    /\ UNCHANGED <<config_refresh_ms, current_tab, speed_checked, update_timer,
                   component_vars>>

\* A speed change that rebuilds the histories, as a fresh SystemMonitor would.
ChangeUpdateSpeed_Restart(ms) ==
    /\ app_state = "running"
    /\ speed_checked' = ms
    /\ IF ms = 0
       THEN /\ update_timer' = TimerStop(update_timer)
            /\ UNCHANGED config_refresh_ms
       ELSE /\ config_refresh_ms' = ms
            /\ update_timer' = TimerStart(TimerSetInterval(update_timer, ms))
    /\ cpu_history' = Zeros(graph_history_points)
    /\ memory_history' = Zeros(graph_history_points)
    /\ disk_history' = Zeros(graph_history_points)
    /\ network_history' = Zeros(graph_history_points)
    /\ last' = LastOf("speed")
    /\ UNCHANGED <<app_state, current_tab, net_io_prev, disk_io_prev, widget_vars,
                   since_prev, net_prev_timer, component_vars>>

\* _change_update_speed(ms), from the exclusive 'Update speed' action group.
ChangeUpdateSpeed(ms) ==
    /\ app_state = "running"
    /\ speed_checked' = ms
    /\ IF ms = 0
       THEN /\ update_timer' = TimerStop(update_timer)
            /\ UNCHANGED config_refresh_ms
       ELSE /\ config_refresh_ms' = ms
            /\ update_timer' =
                 LET t == TimerSetInterval(update_timer, ms)
                 IN  IF ~t.active THEN TimerStart(t) ELSE t
    /\ last' = LastOf("speed")
    /\ UNCHANGED <<app_state, current_tab, monitor_vars, widget_vars,
                   since_prev, net_prev_timer, component_vars>>

\* closeEvent
CloseEvent ==
    /\ app_state = "running"
    /\ update_timer' = TimerStop(update_timer)
    /\ app_state' = "closed"
    /\ last' = LastOf("close")
    /\ UNCHANGED <<config_refresh_ms, current_tab, speed_checked,
                   monitor_vars, widget_vars, since_prev, net_prev_timer,
                   component_vars>>

\* The user selects another tab of the QTabWidget.
SelectTab(tab) ==
    /\ app_state = "running"
    /\ tab # current_tab
    /\ current_tab' = tab
    /\ last' = LastOf("tab")
    /\ UNCHANGED <<app_state, config_refresh_ms, speed_checked, update_timer,
                   monitor_vars, widget_vars, since_prev, net_prev_timer,
                   component_vars>>

\* ClockStep ms pass; a due timeout is delivered first.
Advance ==
    /\ app_state = "running"
    /\ ~TimerDue
    /\ update_timer' = IF update_timer.active
                       THEN [update_timer EXCEPT !.remaining = @ - ClockStep]
                       ELSE update_timer
    /\ since_prev' = Min(since_prev + ClockStep, MaxElapsed)
    /\ last' = LastOf("clock")
    /\ UNCHANGED <<app_state, config_refresh_ms, current_tab, speed_checked,
                   monitor_vars, widget_vars, net_prev_timer, component_vars>>

\* The execution contexts a run of _update_all could be in.
Contexts == {1, 2}

IdleRun == [pc |-> "idle", handler |-> "none"]

NoRead == [reader |-> 0, writer |-> 0]

NoAlertCall == [called |-> FALSE]

Unset == [set |-> FALSE, at |-> 0]

\* The parts as the whole-window specifications hold them.
WindowIdle ==
    /\ window_capacity = 0
    /\ window_buffer = <<>>
    /\ window_pushed = <<>>

AlertIdle ==
    /\ alert_cooldown = 0
    /\ alert_last_fired_at = Unset
    /\ alert_now = 0
    /\ alert_fired = {}
    /\ alert_last = NoAlertCall

FlightIdle ==
    /\ in_flight = [c \in Contexts |-> IdleRun]
    /\ prev_writer = 0
    /\ prev_seen = NoRead

\* TaskManagerWindow.__init__: AppConfig(), SystemMonitor(config), _init_ui,
\* _start_update_timer.  SystemMonitor.__init__ reads both counters with no
\* try: a read that raises ends the construction (run() logs a fatal error),
\* a read that returns None is stored as the previous reading.
InitWidgets ==
    /\ config_refresh_ms = DefaultRefreshMs
    /\ current_tab = "processes"
    /\ speed_checked = DefaultRefreshMs
    /\ cpu_history = Zeros(graph_history_points)
    /\ memory_history = Zeros(graph_history_points)
    /\ disk_history = Zeros(graph_history_points)
    /\ network_history = Zeros(graph_history_points)
    /\ cpu_graph = Zeros(GraphMaxlen)
    /\ mem_graph = Zeros(GraphMaxlen)
    /\ disk_graph = Zeros(GraphMaxlen)
    /\ net_graph = Zeros(GraphMaxlen)
    /\ disk_info = LabelUnset
    /\ net_info = LabelUnset
    /\ last = LastOf("init")
    /\ since_prev = 0

InitIn(env) ==
    /\ InitWidgets
    /\ \/ /\ app_state = "running"
          /\ net_io_prev \in env.net
          /\ disk_io_prev \in env.disk
          /\ update_timer = TimerStart([active |-> FALSE, interval |-> config_refresh_ms,
                                        remaining |-> 0])
       \/ /\ app_state = "fatal"
          /\ net_io_prev = NetNone
          /\ disk_io_prev = DiskNone
          /\ update_timer = [active |-> FALSE, interval |-> config_refresh_ms, remaining |-> 0]
    /\ net_prev_timer = net_io_prev
    /\ config_graph_history_points = graph_history_points
    /\ WindowIdle /\ AlertIdle /\ FlightIdle

\* The whole window, with the OS counters steady: a counter read returns
\* the same totals every time, or fails; any read may raise.
SteadyDisk == {CHOOSE d \in DiskCounters : d.read_bytes = 4096, DiskNone}

SteadyNet == {CHOOSE n \in NetCounters : n.bytes_recv = 1000, NetNone}

SteadyEnv == Env(PerfAborts \cup StatusAborts, SteadyDisk, SteadyNet)

Next ==
    \/ TimerTick(SteadyEnv)
    \/ RefreshNow(SteadyEnv)
    \/ \E ms \in SpeedMenu : ChangeUpdateSpeed(ms)
    \/ CloseEvent
    \/ \E tab \in Tabs : SelectTab(tab)
    \/ Advance

Init == InitIn(SteadyEnv)

Spec == Init /\ [][Next]_vars

\* The sampling path with moving counters, at the default update speed,
\* once the Performance tab is opened; CPU and memory reads succeed.
MovingEnv == Env({}, DiskReadings, NetReadings)

NextSampling ==
    \/ TimerTick(MovingEnv)
    \/ RefreshNow(MovingEnv)
    \/ SelectTab("performance")
    \/ Advance

InitSampling == InitIn(MovingEnv)

SamplingSpec == InitSampling /\ [][NextSampling]_vars

\* ------------------------------------------------- the parts on their own

\* Before TaskManagerWindow() is constructed: no monitor, no widgets, no timer.
NotConstructed ==
    /\ app_state = "new"
    /\ config_refresh_ms = DefaultRefreshMs
    /\ current_tab = "processes"
    /\ speed_checked = DefaultRefreshMs
    /\ update_timer = [active |-> FALSE, interval |-> DefaultRefreshMs, remaining |-> 0]
    /\ cpu_history = <<>> /\ memory_history = <<>>
    /\ disk_history = <<>> /\ network_history = <<>>
    /\ net_io_prev = NetNone /\ disk_io_prev = DiskNone
    /\ cpu_graph = <<>> /\ mem_graph = <<>> /\ disk_graph = <<>> /\ net_graph = <<>>
    /\ disk_info = LabelUnset /\ net_info = LabelUnset
    /\ last = LastOf("init")
    /\ since_prev = 0
    /\ net_prev_timer = NetNone

\* One history deque of SystemMonitor, for any capacity: built as
\* deque([0] * capacity, maxlen=capacity), then appended to.
MaxCapacity == 3

MaxPushes == MaxCapacity + 2

WindowValues == {0, 40, 100}

InitWindow ==
    /\ NotConstructed
    /\ config_graph_history_points = graph_history_points
    /\ window_capacity \in 1..MaxCapacity
    /\ window_buffer = Zeros(window_capacity)
    /\ window_pushed = <<>>
    /\ AlertIdle /\ FlightIdle

\* history.append(value), as update_history does for each of its deques.
WindowAppend(x) ==
    /\ Len(window_pushed) < MaxPushes
    /\ window_buffer' = DequeAppend(window_buffer, x, window_capacity)
    /\ window_pushed' = Append(window_pushed, x)
    /\ UNCHANGED <<app_state, config_refresh_ms, current_tab, speed_checked, update_timer,
                   monitor_vars, widget_vars, last, since_prev, net_prev_timer,
                   config_graph_history_points, window_capacity, alert_vars, flight_vars>>

NextWindow == \E x \in WindowValues : WindowAppend(x)

WindowSpec == InitWindow /\ [][NextWindow]_vars

\* _update_all step by step: a run is started in an execution context by the
\* timer's timeout or by 'Refresh now', updates the current tab (pc "tab":
\* update_history with its counter reads; pc "labels": the graphs and the
\* info labels with their counter reads), reads for the status bar (pc
\* "status") and returns.  The network counters move between reads; every
\* read succeeds.
FlightEnv ==
    Env({}, SteadyDisk \ {DiskNone}, {n \in NetCounters : n.bytes_sent = 0})

\* A slot that is started whatever else is running, as a timer thread would.
EventLoopIdle_Reentrant == TRUE

\* The timeout signal and the menu action are delivered by the event loop of
\* app.exec_() on its one thread, and _update_all neither processes events
\* nor opens a dialog: the loop takes its next event only once the slot it
\* called has returned.
EventLoopIdle == \A c \in Contexts : in_flight[c].pc = "idle"

Dispatch(handler, c) ==
    /\ app_state = "running"
    /\ EventLoopIdle
    /\ in_flight[c].pc = "idle"
    /\ IF handler = "timer"
       THEN /\ TimerDue
            /\ update_timer' = [update_timer EXCEPT !.remaining = update_timer.interval]
       ELSE UNCHANGED update_timer
    /\ in_flight' = [in_flight EXCEPT ![c] = [pc |-> "tab", handler |-> handler]]
    /\ last' = LastOf(handler)
    /\ UNCHANGED <<app_state, config_refresh_ms, current_tab, speed_checked,
                   monitor_vars, widget_vars, since_prev, net_prev_timer,
                   config_graph_history_points, window_vars, alert_vars,
                   prev_writer, prev_seen>>

\* performance_tab.update_data up to the return of update_history; the
\* other tabs' update_data touch neither the monitor nor the graphs.
RunTab(c, env) ==
    /\ in_flight[c].pc = "tab"
    /\ IF current_tab = "performance"
       THEN \E cp \in CpuReadings, m \in MemReadings, d \in env.disk, n \in env.net :
            \E h \in {UpdateHistory("none", cp, m, d, n)} :
               /\ cpu_history' = h.cpu_history
               /\ memory_history' = h.memory_history
               /\ disk_history' = h.disk_history
               /\ network_history' = h.network_history
               /\ disk_io_prev' = h.disk_io_prev
               /\ net_io_prev' = h.net_io_prev
               /\ since_prev' = IF h.net_stored THEN 0 ELSE since_prev
               /\ net_prev_timer' = IF in_flight[c].handler = "timer"
                                    THEN GetNetworkInfo(net_prev_timer, n).prev
                                    ELSE net_prev_timer
               /\ prev_seen' = [reader |-> c, writer |-> prev_writer]
               /\ prev_writer' = IF h.net_stored THEN c ELSE prev_writer
               /\ in_flight' = [in_flight EXCEPT ![c].pc = "labels"]
               /\ last' = [LastOf(in_flight[c].handler) EXCEPT
                              !.failed = h.failed, !.appended = h.appended,
                              !.net_reads = 1, !.disk_reads = 1]
       ELSE /\ in_flight' = [in_flight EXCEPT ![c].pc = "status"]
            /\ last' = LastOf(in_flight[c].handler)
            /\ UNCHANGED <<monitor_vars, since_prev, net_prev_timer, prev_writer, prev_seen>>
    /\ UNCHANGED <<app_state, config_refresh_ms, current_tab, speed_checked, update_timer,
                   widget_vars, config_graph_history_points, window_vars, alert_vars>>

\* The rest of performance_tab.update_data: the graphs, then the labels.
RunLabels(c, env) ==
    /\ in_flight[c].pc = "labels"
    /\ \E d \in env.disk, n \in env.net :
       \E h \in {[cpu_history |-> cpu_history, memory_history |-> memory_history,
                  disk_history |-> disk_history, network_history |-> network_history,
                  disk_io_prev |-> disk_io_prev, net_io_prev |-> net_io_prev,
                  net_info |-> NetDefault, disk_info |-> DiskDefault,
                  raised |-> FALSE, net_stored |-> FALSE]} :
       \E p \in {PerfUpdateData(h, "none", d, n)} :
          /\ cpu_graph' = p.cpu_graph
          /\ mem_graph' = p.mem_graph
          /\ disk_graph' = p.disk_graph
          /\ net_graph' = p.net_graph
          /\ disk_info' = p.disk_info
          /\ net_info' = p.net_info
          /\ disk_io_prev' = p.disk_io_prev
          /\ net_io_prev' = p.net_io_prev
          /\ since_prev' = IF p.net_stored THEN 0 ELSE since_prev
          /\ net_prev_timer' = IF in_flight[c].handler = "timer"
                               THEN GetNetworkInfo(net_prev_timer, n).prev
                               ELSE net_prev_timer
          /\ prev_seen' = [reader |-> c, writer |-> prev_writer]
          /\ prev_writer' = IF p.net_stored THEN c ELSE prev_writer
          /\ last' = [LastOf(in_flight[c].handler) EXCEPT
                         !.graphed = p.graphed, !.net_reads = 1, !.disk_reads = 1]
    /\ in_flight' = [in_flight EXCEPT ![c].pc = "status"]
    /\ UNCHANGED <<app_state, config_refresh_ms, current_tab, speed_checked, update_timer,
                   cpu_history, memory_history, disk_history, network_history,
                   config_graph_history_points, window_vars, alert_vars>>

\* The status bar is updated and _update_all returns to the event loop.
RunReturn(c) ==
    /\ in_flight[c].pc = "status"
    /\ in_flight' = [in_flight EXCEPT ![c] = IdleRun]
    /\ prev_writer' = IF prev_writer = c THEN 0 ELSE prev_writer
    /\ last' = LastOf(in_flight[c].handler)
    /\ UNCHANGED <<app_state, config_refresh_ms, current_tab, speed_checked, update_timer,
                   monitor_vars, widget_vars, since_prev, net_prev_timer,
                   config_graph_history_points, window_vars, alert_vars, prev_seen>>

NextFlight ==
    \/ \E c \in Contexts : Dispatch("timer", c)
    \/ \E c \in Contexts : Dispatch("manual", c)
    \/ \E c \in Contexts : RunTab(c, FlightEnv)
    \/ \E c \in Contexts : RunLabels(c, FlightEnv)
    \/ \E c \in Contexts : RunReturn(c)
    \/ EventLoopIdle /\ SelectTab("performance")
    \/ Advance

InitFlight == InitIn(FlightEnv)

FlightSpec == InitFlight /\ [][NextFlight]_vars

\* The Threshold Monitor, which src/app.py does not contain: evaluate as the
\* design document gives it (section 4.4), with its AlertState and a clock
\* in whole time units.
AlertKinds == {"cpu", "memory", "disk"}

Thresholds == [cpu |-> 90, memory |-> 85, disk |-> 90]

Cooldowns == {0, 3}

MaxNow == 7

Snapshots == [cpu : {50, 95}, memory : {50, 90}, disk : {50, 95}]

Alert(kind, snapshot) ==
    [kind |-> kind, observed_value |-> snapshot[kind], threshold |-> Thresholds[kind]]

\* Step 1: the metrics at or above their threshold.
Exceeded(snapshot) == {k \in AlertKinds : snapshot[k] >= Thresholds[k]}

CooldownOver(last_fired_at, now, cooldown) ==
    ~last_fired_at.set \/ now - last_fired_at.at >= cooldown

\* An evaluate without debounce: a batch whenever a threshold is exceeded.
Evaluate_NoCooldown(snapshot, now, state, cooldown) ==
    IF Exceeded(snapshot) = {}
    THEN [batch |-> {}, last_fired_at |-> state]
    ELSE [batch |-> {Alert(k, snapshot) : k \in Exceeded(snapshot)},
          last_fired_at |-> [set |-> TRUE, at |-> now]]

\* An evaluate that reports one exceeded metric at a time.
Evaluate_OneAtATime(snapshot, now, state, cooldown) ==
    IF Exceeded(snapshot) = {} \/ ~CooldownOver(state, now, cooldown)
    THEN [batch |-> {}, last_fired_at |-> state]
    ELSE [batch |-> {Alert(CHOOSE k \in Exceeded(snapshot) : TRUE, snapshot)},
          last_fired_at |-> [set |-> TRUE, at |-> now]]

\* An evaluate that restarts the cooldown on every exceeded cycle.
Evaluate_TouchAlways(snapshot, now, state, cooldown) ==
    IF Exceeded(snapshot) = {}
    THEN [batch |-> {}, last_fired_at |-> state]
    ELSE [batch |-> IF CooldownOver(state, now, cooldown)
                    THEN {Alert(k, snapshot) : k \in Exceeded(snapshot)}
                    ELSE {},
          last_fired_at |-> [set |-> TRUE, at |-> now]]

\* evaluate(snapshot, now) -> the batch of alerts (the design document gives
\* the batch no order: a set) and the AlertState it leaves.
\* Steps 2 and 4 return empty and leave the state; step 3 fires.
Evaluate(snapshot, now, state, cooldown) ==
    IF Exceeded(snapshot) = {}
    THEN [batch |-> {}, last_fired_at |-> state]
    ELSE IF CooldownOver(state, now, cooldown)
    THEN [batch |-> {Alert(k, snapshot) : k \in Exceeded(snapshot)},
          last_fired_at |-> [set |-> TRUE, at |-> now]]
    ELSE [batch |-> {}, last_fired_at |-> state]

InitAlert ==
    /\ NotConstructed
    /\ config_graph_history_points = graph_history_points
    /\ WindowIdle /\ FlightIdle
    /\ alert_cooldown \in Cooldowns
    /\ alert_last_fired_at = Unset
    /\ alert_now = 0
    /\ alert_fired = {}
    /\ alert_last = NoAlertCall

\* The scheduler hands a snapshot to the monitor.
AlertEvaluate(snapshot) ==
    /\ \E r \in {Evaluate(snapshot, alert_now, alert_last_fired_at, alert_cooldown)} :
          /\ alert_last_fired_at' = r.last_fired_at
          /\ alert_fired' = IF r.batch # {} THEN alert_fired \cup {alert_now} ELSE alert_fired
          /\ alert_last' = [called |-> TRUE, snapshot |-> snapshot, now |-> alert_now,
                            before |-> alert_last_fired_at, batch |-> r.batch]
    /\ UNCHANGED <<app_state, config_refresh_ms, current_tab, speed_checked, update_timer,
                   monitor_vars, widget_vars, last, since_prev, net_prev_timer,
                   config_graph_history_points, window_vars, flight_vars,
                   alert_cooldown, alert_now>>

\* One time unit passes.
AlertClock ==
    /\ alert_now < MaxNow
    /\ alert_now' = alert_now + 1
    /\ UNCHANGED <<app_state, config_refresh_ms, current_tab, speed_checked, update_timer,
                   monitor_vars, widget_vars, last, since_prev, net_prev_timer,
                   config_graph_history_points, window_vars, flight_vars,
                   alert_cooldown, alert_last_fired_at, alert_fired, alert_last>>

NextAlert ==
    \/ \E snapshot \in Snapshots : AlertEvaluate(snapshot)
    \/ AlertClock

AlertSpec == InitAlert /\ [][NextAlert]_vars

\* Construction with any AppConfig.  AppConfig is a plain dataclass (no
\* __post_init__): it takes whatever graph_history_points it is given, and
\* SystemMonitor.__init__ builds deque([0] * n, maxlen=n) from it: a negative
\* maxlen makes deque raise ValueError, zero builds empty deques that stay
\* empty.  The counters read here are steady and every read succeeds.
ConfigPoints == (0 - 1)..MaxCapacity

ConfigEnv == Env({}, SteadyDisk \ {DiskNone}, SteadyNet \ {NetNone})

InitConfig ==
    /\ NotConstructed
    /\ config_graph_history_points \in ConfigPoints
    /\ WindowIdle /\ AlertIdle /\ FlightIdle

\* TaskManagerWindow.__init__ around SystemMonitor(config): the monitor, the
\* widgets, then _start_update_timer; an exception ends it in run()'s
\* except clause.
Construct(env) ==
    /\ app_state = "new"
    /\ IF config_graph_history_points < 0
       THEN /\ app_state' = "fatal"
            /\ UNCHANGED <<update_timer, monitor_vars, widget_vars, net_prev_timer>>
       ELSE \E n \in env.net, d \in env.disk :
            /\ app_state' = "running"
            /\ cpu_history' = Zeros(config_graph_history_points)
            /\ memory_history' = Zeros(config_graph_history_points)
            /\ disk_history' = Zeros(config_graph_history_points)
            /\ network_history' = Zeros(config_graph_history_points)
            /\ net_io_prev' = n
            /\ disk_io_prev' = d
            /\ net_prev_timer' = n
            /\ cpu_graph' = Zeros(GraphMaxlen)
            /\ mem_graph' = Zeros(GraphMaxlen)
            /\ disk_graph' = Zeros(GraphMaxlen)
            /\ net_graph' = Zeros(GraphMaxlen)
            /\ UNCHANGED <<disk_info, net_info>>
            /\ update_timer' = TimerStart([active |-> FALSE, interval |-> config_refresh_ms,
                                           remaining |-> 0])
    /\ last' = LastOf("init")
    /\ UNCHANGED <<config_refresh_ms, current_tab, speed_checked, since_prev, component_vars>>

NextConfig ==
    \/ Construct(ConfigEnv)
    \/ TimerTick(ConfigEnv)
    \/ SelectTab("performance")
    \/ Advance

ConfigSpec == InitConfig /\ [][NextConfig]_vars

\* ================================================================ claims

Sampled == last.handler \in {"timer", "manual"} /\ last.net.taken

BothRead == Sampled /\ last.net.prev.ok /\ last.net.curr.ok

NonNegative(history) == \A i \in 1..Len(history) : history[i] >= 0

\* C1: a rate computed from a current reading smaller than the previous one
\* is 0, so no network or disk rate a sample reports, and no value in a
\* history, is negative.
C1_NoNegativeRate ==
    /\ NonNegative(network_history) /\ NonNegative(disk_history)
    /\ Sampled => last.net.info.sent_speed >= 0 /\ last.net.info.recv_speed >= 0
    /\ BothRead /\ last.net.curr.bytes_recv < last.net.prev.bytes_recv
          => last.net.info.recv_speed = 0

\* C2: with elapsed time t > 0 since the stored reading and curr >= prev,
\* the rate a sample reports is (curr - prev) / t bytes per second, t being
\* the time between the two readings (here in ms).
C2_RateIsDeltaOverElapsed ==
    BothRead /\ last.net.elapsed > 0 /\ last.net.elapsed < MaxElapsed
             /\ last.net.curr.bytes_recv >= last.net.prev.bytes_recv
        => last.net.info.recv_speed * last.net.elapsed
             = (last.net.curr.bytes_recv - last.net.prev.bytes_recv) * 1000

Stopped == speed_checked = 0 \/ app_state = "closed"

\* C4: once 'Paused' is selected or the window is closed, the timer is
\* inactive and no timer-driven tick runs, however much time passes, until
\* another speed is selected; a sample taken meanwhile is a manual refresh.
C4_StoppedNoTimerTick ==
    Stopped => ~update_timer.active /\ last.handler # "timer"

\* A manual refresh samples while paused, two periods or more after the
\* previous stored reading.
C4_Witness ==
    /\ speed_checked = 0 /\ last.handler = "manual" /\ last.net.taken
    /\ last.net.elapsed >= 2 * update_timer.interval

\* C5: a failed read of one sub-metric degrades only that field: every
\* other sub-metric is still read and recorded in the same cycle.
C5_FailureDegradesOnlyThatField ==
    last.handler \in {"timer", "manual"} /\ current_tab = "performance"
        => (Metrics \ last.failed) \subseteq (last.appended \cap last.graphed)

\* C6: an exception raised inside a timer-driven tick does not stop the
\* timer: the application is still running and the timer is active and
\* armed for its next timeout.
C6_FailedTickKeepsTimer ==
    last.handler = "timer" /\ last.error
        => /\ app_state = "running"
           /\ update_timer.active
           /\ update_timer.remaining = update_timer.interval

C6_Witness == last.handler = "timer" /\ last.error /\ current_tab = "processes"

\* C7: with no previous reading held (the counter source was unavailable at
\* first use), a sample reports a zero rate and the first reading that
\* succeeds becomes the stored baseline.
C7_FirstReadingBecomesBaseline ==
    Sampled /\ ~last.net.prev.ok
        => /\ last.net.info = NetDefault
           /\ last.net.curr.ok => net_io_prev = last.net.curr

\* C8: the rate is 0 whenever the elapsed time between the current and the
\* previous reading is zero or negative.
C8_NoElapsedZeroRate ==
    Sampled /\ last.net.elapsed <= 0
        => last.net.info.sent_speed = 0 /\ last.net.info.recv_speed = 0

\* C9: a tick runs one sample: each cumulative counter is read once, and
\* what the tick publishes comes from that sample (stated for the ticks
\* that publish: Performance tab current, no read raising).
C9_OneSamplePerTick ==
    last.handler \in {"timer", "manual"} /\ current_tab = "performance" /\ ~last.error
        => /\ last.net_reads = 1 /\ last.disk_reads = 1
           /\ net_info.shown /\ net_info.info = last.net.info

Buffers ==
    <<cpu_history, memory_history, disk_history, network_history,
      cpu_graph, mem_graph, disk_graph, net_graph>>

Capacity(k) == IF k <= 4 THEN graph_history_points ELSE GraphMaxlen

\* A step leaves buffer k as it is, or pushes one value onto it, dropping
\* exactly the first (oldest) element when the buffer was full.
PushOrKeep(k) ==
    \/ Buffers'[k] = Buffers[k]
    \/ /\ Len(Buffers[k]) = Capacity(k)
       /\ Len(Buffers'[k]) = Capacity(k)
       /\ \A i \in 1..(Capacity(k) - 1) : Buffers'[k][i] = Buffers[k][i + 1]
    \/ /\ Len(Buffers[k]) < Capacity(k)
       /\ Len(Buffers'[k]) = Len(Buffers[k]) + 1
       /\ \A i \in 1..Len(Buffers[k]) : Buffers'[k][i] = Buffers[k][i]

\* C10: every history and graph buffer is non-empty and no longer than its
\* capacity in every reachable state, and a push onto a full buffer evicts
\* exactly the oldest element.
C10_BoundedWindows ==
    /\ [](\A k \in 1..8 : Len(Buffers[k]) >= 1 /\ Len(Buffers[k]) <= Capacity(k))
    /\ [][\A k \in 1..8 : PushOrKeep(k)]_vars

\* Every initial zero of the network history has been evicted.
C10_Witness ==
    /\ Len(network_history) = graph_history_points
    /\ \A i \in 1..Len(network_history) : network_history[i] # 0
    /\ network_history[1] # network_history[Len(network_history)]

RECURSIVE SeqSum(_)
SeqSum(q) == IF q = <<>> THEN 0 ELSE q[1] + SeqSum(Tail(q))

\* The last n of the values pushed, in push order.
MostRecent(n) == SubSeq(window_pushed, Len(window_pushed) - n + 1, Len(window_pushed))

\* C11: for every capacity >= 1, once more than capacity values have been
\* pushed, the window holds exactly the most recent capacity pushed values
\* in push order (no initial zero, no older value), so the sum its average
\* is taken over is the sum of those values only.
C11_WindowHoldsMostRecent ==
    Len(window_pushed) > window_capacity
        => /\ window_buffer = MostRecent(window_capacity)
           /\ SeqSum(window_buffer) = SeqSum(MostRecent(window_capacity))

\* One value more than the capacity has been pushed, the evicted one
\* differing from the newest, none of them equal to the initial zeros.
C11_Witness ==
    /\ window_capacity >= 2
    /\ Len(window_pushed) = window_capacity + 1
    /\ window_pushed[1] # window_pushed[Len(window_pushed)]
    /\ \A i \in 1..Len(window_pushed) : window_pushed[i] # 0

\* C12: selecting another (non-zero) speed while the timer runs leaves it
\* running with the new period, and resets no sampling state: the histories
\* and the stored previous counters are what they were before the change.
C12_SpeedChangeKeepsSampling ==
    [][(update_timer.active /\ last'.handler = "speed" /\ speed_checked' # 0)
          => /\ update_timer'.active
             /\ update_timer'.interval = speed_checked'
             /\ config_refresh_ms' = speed_checked'
             /\ monitor_vars' = monitor_vars
             /\ widget_vars' = widget_vars]_vars

\* The speed was changed to High with samples already in the histories.
C12_Witness ==
    /\ last.handler = "speed" /\ speed_checked = 500
    /\ update_timer.active /\ update_timer.interval = 500
    /\ cpu_history[Len(cpu_history)] # 0
    /\ net_io_prev.ok

Running(c) == in_flight[c].pc # "idle"

\* C13: no two runs of _update_all overlap: at most one is in progress at
\* any time, a run starts only when none is in progress, and no read of the
\* stored previous counters sees a value stored by another run that has not
\* yet returned.
C13_NoOverlappingSamples ==
    /\ [](Cardinality({c \in Contexts : Running(c)}) <= 1)
    /\ [](prev_seen.writer \in {0, prev_seen.reader})
    /\ [][\A c \in Contexts :
             ~Running(c) /\ Running(c)' => \A o \in Contexts : ~Running(o)]_vars

\* A manual refresh was started right after a timer tick whose two reads
\* both stored the counters, and has read them in its turn.
C13_Witness ==
    /\ \E c \in Contexts : in_flight[c] = [pc |-> "labels", handler |-> "manual"]
    /\ prev_seen.reader # 0 /\ prev_writer = prev_seen.reader
    /\ since_prev = 0
    /\ net_prev_timer # net_io_prev

\* The most recent evaluate call met an exceeded threshold.
CalledExceeded == alert_last.called /\ Exceeded(alert_last.snapshot) # {}

\* ... and the cooldown had not elapsed since the last firing.
CalledInCooldown ==
    /\ CalledExceeded
    /\ alert_last.before.set
    /\ alert_last.now - alert_last.before.at < alert_cooldown

\* C14: alerts are debounced: any two instants at which evaluate returned a
\* non-empty batch are at least cooldown_duration apart, and a call with an
\* exceeded metric made less than cooldown_duration after the last firing
\* returns an empty batch.
C14_AlertsDebounced ==
    /\ \A t1 \in alert_fired : \A t2 \in alert_fired :
          t1 < t2 => t2 - t1 >= alert_cooldown
    /\ CalledInCooldown => alert_last.batch = {}

\* With a non-zero cooldown: fired, stayed silent, and has just fired again.
C14_Witness ==
    /\ alert_cooldown > 0
    /\ Cardinality(alert_fired) >= 2
    /\ alert_last.called /\ alert_last.batch # {}
    /\ alert_last.before.set

\* C15: a call with at least one metric at or above its threshold, made with
\* last_fired_at unset or at least cooldown_duration old, returns exactly one
\* alert for every exceeded metric and none for any other, and sets
\* last_fired_at to now; with a zero cooldown every call with an exceeded
\* metric returns a batch.
C15_BatchOfAllExceeded ==
    /\ CalledExceeded /\ ~CalledInCooldown
          => /\ \A k \in AlertKinds :
                   Cardinality({a \in alert_last.batch : a.kind = k})
                      = IF alert_last.snapshot[k] >= Thresholds[k] THEN 1 ELSE 0
             /\ \A a \in alert_last.batch :
                   /\ a.observed_value = alert_last.snapshot[a.kind]
                   /\ a.threshold = Thresholds[a.kind]
             /\ alert_last_fired_at = [set |-> TRUE, at |-> alert_last.now]
    /\ CalledExceeded /\ alert_cooldown = 0 => alert_last.batch # {}

\* CPU and memory exceeded together, disk not, in a call after an earlier
\* firing: a batch of exactly those two.
C15_Witness ==
    /\ alert_last.called /\ alert_last.before.set
    /\ Exceeded(alert_last.snapshot) = {"cpu", "memory"}
    /\ Cardinality(alert_last.batch) = 2

\* C16: last_fired_at changes only in an evaluate call that returns a
\* non-empty batch: a call with no threshold exceeded, or within the
\* cooldown, returns empty and leaves last_fired_at as it was.
C16_StateChangesOnlyOnFiring ==
    /\ [](alert_last.called /\ (~CalledExceeded \/ CalledInCooldown)
            => alert_last.batch = {} /\ alert_last_fired_at = alert_last.before)
    /\ [][alert_last_fired_at' # alert_last_fired_at
            => alert_last'.called /\ alert_last'.batch # {}
               /\ alert_last_fired_at' = [set |-> TRUE, at |-> alert_now]]_vars

\* A call within the cooldown with a metric exceeded: empty, state kept.
C16_Witness ==
    /\ CalledInCooldown
    /\ alert_last.now > alert_last.before.at
    /\ alert_last.batch = {}
    /\ alert_last_fired_at = alert_last.before

\* C17: a configuration that is out of range (here: a rolling-window size
\* that is not positive) is rejected at construction, so the window never
\* runs, and its timer never ticks, with such a configuration.
C17_OutOfRangeConfigRejected ==
    config_graph_history_points < 1
        => app_state \in {"new", "fatal"} /\ ~update_timer.active

DiskSampled == last.handler \in {"timer", "manual"} /\ last.disk.taken

\* C18: after every successful read of the network (resp. disk) counters
\* the stored previous counters are the reading just taken.
C18_PrevIsLatestReading ==
    /\ Sampled /\ last.net.curr.ok => net_io_prev = last.net.curr
    /\ DiskSampled /\ last.disk.curr.ok => disk_io_prev = last.disk.curr

\* C19: when reading the network (resp. disk) counters fails inside
\* get_network_info (resp. get_disk_info), the call returns the all-zero
\* default record, which is what the history and the label get, and the
\* stored previous counters stay what they were.
C19_FailedReadKeepsPrev ==
    /\ Sampled /\ ~last.net.curr.ok
          => /\ last.net.info = NetDefault
             /\ net_io_prev = last.net.prev
             /\ net_info = [shown |-> TRUE, info |-> NetDefault]
             /\ network_history[Len(network_history)] = 0
    /\ DiskSampled /\ ~last.disk.curr.ok
          => /\ last.disk.info = DiskDefault
             /\ disk_io_prev = last.disk.prev
             /\ disk_info = [shown |-> TRUE, info |-> DiskDefault]
             /\ disk_history[Len(disk_history)] = 0

\* The network read failed while counters were held, in a sample whose disk
\* read succeeded and replaced the stored disk counters.
C19_Witness ==
    /\ Sampled /\ ~last.net.curr.ok /\ last.net.prev.ok
    /\ net_io_prev.bytes_recv = 3000
    /\ DiskSampled /\ last.disk.curr.ok /\ last.disk.prev.ok
    /\ last.disk.curr # last.disk.prev

\* C20: a tick or refresh that runs while the Performance tab is not the
\* current tab leaves the four histories and the stored previous counters
\* unchanged: they change only in a run of _update_all with the Performance
\* tab current.
C20_OnlyPerformanceTabSamples ==
    [][/\ last'.handler \in {"timer", "manual"} /\ current_tab # "performance"
            => monitor_vars' = monitor_vars
       /\ monitor_vars' # monitor_vars
            => current_tab = "performance" /\ last'.handler \in {"timer", "manual"}]_vars

\* A timer tick on the Processes tab, after samples taken on the
\* Performance tab filled the histories.
C20_Witness ==
    /\ last.handler = "timer" /\ current_tab = "processes"
    /\ last.appended = {}
    /\ \A i \in 1..Len(cpu_history) : cpu_history[i] # 0
    /\ update_timer.remaining = update_timer.interval

\* C21: after any sequence of update-speed selections before the window
\* closes, the timer is active exactly when the most recent selection is not
\* Paused, its interval is the most recent selection that was not Paused
\* (1000 ms if there was none: a step that leaves Paused selected keeps the
\* interval, any other selection sets it), and config.refresh_ms, which
\* follows the interval, is never 0.
C21_TimerFollowsSpeedMenu ==
    /\ [](app_state = "running"
            => /\ update_timer.active <=> speed_checked # 0
               /\ speed_checked # 0 => update_timer.interval = speed_checked
               /\ config_refresh_ms = update_timer.interval
               /\ config_refresh_ms # 0)
    /\ [](last.handler = "init" => update_timer.interval = DefaultRefreshMs)
    /\ [][app_state' = "running" /\ speed_checked' = 0
            => update_timer'.interval = update_timer.interval]_vars

\* High was selected, then Paused: the timer is stopped and keeps 500 ms.
C21_Witness ==
    /\ app_state = "running" /\ last.handler = "speed"
    /\ speed_checked = 0 /\ ~update_timer.active
    /\ update_timer.interval = 500 /\ config_refresh_ms = 500

====
